---- MODULE Spec2Model ----
(***************************************************************************)
(* countAndProcessRegions.py: partition a region count into chunks, plan   *)
(* one command per chunk, and either emit scripts or run the plan directly *)
(* (sequentially, or in a ProcessPoolExecutor with PID marker files and a  *)
(* signal handler that sweeps them).                                       *)
(***************************************************************************)
EXTENDS Integers, Sequences, FiniteSets, TLC

(***************************************************************************)
(* Bounds of the model.                                                    *)
(***************************************************************************)
\* main: num_regions is drawn from 0..MaxRegions
MaxRegions == 2
\* main: chunk_size is drawn from -1..MaxChunkSize
MaxChunkSize == 2
\* main: max_workers is drawn from 1..MaxWorkers
MaxWorkers == 2
\* signals delivered during one direct run, at most one per process
MaxSignals == 2
\* partition alone: small totals 0..MaxSmallTotal, chunk sizes up to
\* MaxDivisor in absolute value, totals 2^53 - MaxBigDelta .. 2^53 + MaxBigDelta
MaxSmallTotal == 12
MaxDivisor == 4
MaxBigDelta == 4
\* create_job_array_script alone: plans of 0..MaxPlan commands
MaxPlan == 3

(***************************************************************************)
(* Python integers and the binary64 quotient of math.ceil(n / s).          *)
(* An integer is kept in two limbs, hi * Base + lo, so that totals around  *)
(* 2^53 can be written down; with hi = 0 the limb lo may be negative.      *)
(***************************************************************************)
Base == 2^27

\* significand width of a Python float (IEEE binary64)
MantissaBits == 53

signal_SIGINT == 2
signal_SIGTERM == 15

Big(hi, lo) == [hi |-> hi, lo |-> lo]

BigZero == Big(0, 0)

BigInc(x) == IF x.lo + 1 = Base THEN Big(x.hi + 1, 0) ELSE Big(x.hi, x.lo + 1)

BigDec(x) == IF x.lo = 0 /\ x.hi > 0 THEN Big(x.hi - 1, Base - 1) ELSE Big(x.hi, x.lo - 1)

BigNeg(x) == Big(-x.hi, -x.lo)

RECURSIVE BitLen(_)
BitLen(n) == IF n = 0 THEN 0 ELSE 1 + BitLen(n \div 2)

BigBitLen(x) == IF x.hi > 0 THEN (BitLen(Base) - 1) + BitLen(x.hi) ELSE BitLen(x.lo)

\* n divided by s > 0: the integer quotient and the remainder
DivMod(n, s) ==
    LET t == (n.hi % s) * Base + n.lo
    IN  [q |-> Big(n.hi \div s, t \div s), r |-> t % s]

\* the sign of r * 2^k - s, for 0 <= r and 0 < s, without forming r * 2^k
RECURSIVE CmpScaled(_, _, _)
CmpScaled(r, k, s) ==
    IF k = 0 THEN (IF r < s THEN -1 ELSE IF r = s THEN 0 ELSE 1)
    ELSE IF r >= s THEN 1
    ELSE CmpScaled(2 * r, k - 1, s)

\* n / s for s > 0 (int.__truediv__: the exact quotient rounded once, to nearest,
\* ties to even, to MantissaBits significant bits), as its integer part and
\* whether a fractional part is left.  Defined for n < 2^(MantissaBits + 1).
TrueDiv(n, s) ==
    LET d == DivMod(n, s)
        q == d.q
        r == d.r
        e == BigBitLen(q) - 1
        k == MantissaBits - e
        lowOdd == q.lo % 2 = 1
        down == CmpScaled(r, k, s)
        up == CmpScaled(s - r, k, s)
    IN  IF r = 0 /\ e < MantissaBits THEN [int |-> q, frac |-> FALSE]
        ELSE IF e < MantissaBits - 1 THEN
            \* the spacing of floats at q is 2^(e - MantissaBits + 1) < 1
            IF down <= 0 THEN [int |-> q, frac |-> FALSE]
            ELSE IF up <= 0 THEN [int |-> BigInc(q), frac |-> FALSE]
            ELSE [int |-> q, frac |-> TRUE]
        ELSE IF e = MantissaBits - 1 THEN
            \* the spacing is 1: the fraction rounds away
            IF down < 0 \/ (down = 0 /\ ~lowOdd) THEN [int |-> q, frac |-> FALSE]
            ELSE [int |-> BigInc(q), frac |-> FALSE]
        ELSE
            \* the spacing is 2: odd q is not representable
            IF ~lowOdd THEN [int |-> q, frac |-> FALSE]
            ELSE IF r > 0 \/ q.lo % 4 = 3 THEN [int |-> BigInc(q), frac |-> FALSE]
            ELSE [int |-> BigDec(q), frac |-> FALSE]

\* math.ceil(n / s) for s # 0
CeilTrueDiv(n, s) ==
    IF s > 0
    THEN LET f == TrueDiv(n, s) IN IF f.frac THEN BigInc(f.int) ELSE f.int
    ELSE BigNeg(TrueDiv(n, -s).int)

\* ceil(n / s) over the integers, for s > 0
ExactCeil(n, s) ==
    LET d == DivMod(n, s) IN IF d.r > 0 THEN BigInc(d.q) ELSE d.q

Min(a, b) == IF a < b THEN a ELSE b

\* len(range(1, num_chunks + 1)) for a count that fits one limb
RangeLen(c) == IF c.hi = 0 /\ c.lo > 0 THEN c.lo ELSE 0

\* str(i) of a non-negative int, as an f-string formats it
Digit(d) ==
    CASE d = 0 -> "0" [] d = 1 -> "1" [] d = 2 -> "2" [] d = 3 -> "3"
      [] d = 4 -> "4" [] d = 5 -> "5" [] d = 6 -> "6" [] d = 7 -> "7"
      [] d = 8 -> "8" [] d = 9 -> "9"

RECURSIVE Str(_)
Str(n) == IF n < 10 THEN Digit(n) ELSE Str(n \div 10) \o Digit(n % 10)

\* args.output_dir, a required argument
output_dir == "out"

\* a plan whose output name keeps only the last digit of the ordinal
CommandLastDigit(i) == [o |-> output_dir \o "/all_" \o Digit(i % 10) \o ".gz", i |-> i]

\* the command of chunk i: its -o and -i arguments (the others are the same
\* in every command of a plan)
Command(i) == [o |-> output_dir \o "/all_" \o Str(i) \o ".gz", i |-> i]

\* region files as samplePairs.py names them, character by character
HumanRegions == <<"r", ".", "h", ".", "g", "z">>

MouseRegions == <<"r", ".", "m", ".", "g", "z">>

\* pat in s, for two Python strings
Contains(s, pat) ==
    \E k \in 1..(Len(s) - Len(pat) + 1) : SubSeq(s, k, k + Len(pat) - 1) = pat

\* species_id = "h" if ".h.gz" in args.region_filename else "m"
SpeciesId(name) == IF Contains(name, <<".", "h", ".", "g", "z">>) THEN "h" ELSE "m"

\* the empty command line: it runs nothing
NoCommand == [o |-> "", i |-> 0]

\* generate_commands(args, num_regions, num_chunks)
generate_commands(c) == [i \in 1..RangeLen(c) |-> Command(i)]

VARIABLES
    \* command line (args); region_filename is kept as its characters
    num_regions, chunk_size, execute, parallel, job_array, max_workers,
    region_filename,
    \* main: position, locals, exit status of the process, files written
    pcMain, num_chunks, commands, ncmd, exitStatus, files, success, idx,
    \* run_commands_parallel: locals and what it printed as failed
    success_count, failure_count, reported,
    \* run_command in each process: position and chunk_id
    rc, rchunk,
    \* the executor's call queue, each future's outcome, the pool's health and
    \* the last call item workers can still get from a broken pool
    queueHead, result, poolState, queueEnd,
    \* pid/chunk_<i>.pid, the child of chunk i and its exit code
    marker, child, code,
    \* signal_handler in each process: position, glob snapshot, current file
    hpc, hTodo, hCur, signalled,
    \* observers: kills delivered per chunk, children alive and markers present
    \* when the supervisor was signalled, contents a handler read, chunks
    \* in the order run_command was entered
    sigterms, aliveAtSignal, trackedAtSignal, observed, started,
    \* bash running the emitted process_regions.sh, its cleanup() trap, and the
    \* tasks of a submitted job array
    sh, trap, task

argVars ==
    <<num_regions, chunk_size, execute, parallel, job_array, max_workers,
      region_filename>>

mainVars ==
    <<pcMain, num_chunks, commands, ncmd, exitStatus, files, success, idx>>

poolVars ==
    <<success_count, failure_count, reported, queueHead, result, poolState, queueEnd>>

cmdVars == <<rc, rchunk, marker, child, code>>

handlerVars == <<hpc, hTodo, hCur, signalled>>

obsVars == <<sigterms, aliveAtSignal, trackedAtSignal, observed, started>>

shVars == <<sh, trap, task>>

vars == <<argVars, mainVars, poolVars, cmdVars, handlerVars, obsVars, shVars>>

\* process 0 is the supervisor (main); 1..max_workers are the pool's workers
Procs == 0..MaxWorkers

Workers == 1..max_workers

\* chunk ordinals a plan of main can hold
Chunks == 1..MaxRegions

Plan == 1..ncmd

\* main, "Calculate number of chunks": ZeroDivisionError ends the process
ComputeChunks ==
    /\ pcMain = "partition"
    /\ IF chunk_size = 0
       THEN /\ pcMain' = "exited"
            /\ exitStatus' = 1
            /\ UNCHANGED num_chunks
       ELSE /\ num_chunks' = CeilTrueDiv(num_regions, chunk_size)
            /\ pcMain' = "plan"
            /\ UNCHANGED exitStatus
    /\ UNCHANGED <<argVars, shVars, commands, ncmd, files, success, idx>>
    /\ UNCHANGED <<poolVars, cmdVars, handlerVars, obsVars>>

\* generate_commands, and main's choice of what to do with the plan
GenerateCommands ==
    /\ pcMain = "plan"
    /\ commands' = generate_commands(num_chunks)
    /\ ncmd' = Len(commands')
    /\ pcMain' = IF execute THEN (IF parallel THEN "collect" ELSE "seq") ELSE "emit"
    /\ UNCHANGED <<argVars, shVars, num_chunks, exitStatus, files, success, idx>>
    /\ UNCHANGED <<poolVars, cmdVars, handlerVars, obsVars>>

(***************************************************************************)
(* run_command(command, chunk_id, log_dir), executed by process p: by the  *)
(* supervisor in a sequential run, by a pool worker in a parallel run.     *)
(* A process runs its code only while no signal handler runs in it.        *)
(***************************************************************************)
Running(p) == rc[p] # "idle" /\ hpc[p] = "none"

\* run_command returns to its caller: (success, command, output).  The
\* futures of a broken pool have their exception already: what a surviving
\* worker sends back is not read any more.
Return(p, ok) ==
    /\ result' = IF poolState = "broken" THEN result
                 ELSE [result EXCEPT ![rchunk[p]] = IF ok THEN "ok" ELSE "fail"]
    /\ rc' = [rc EXCEPT ![p] = "idle"]
    /\ rchunk' = [rchunk EXCEPT ![p] = 0]

\* subprocess.Popen(command, shell=True, ...): the child starts, or Popen
\* raises and the except branch returns (False, command, str(e))
RcSpawn(p) ==
    /\ Running(p) /\ rc[p] = "spawn"
    /\ \/ /\ child' = [child EXCEPT ![rchunk[p]] = "running"]
          /\ rc' = [rc EXCEPT ![p] = "open"]
          /\ UNCHANGED <<rchunk, result>>
       \/ /\ Return(p, FALSE)
          /\ UNCHANGED child
    /\ UNCHANGED <<argVars, shVars, mainVars, handlerVars, obsVars>>
    /\ UNCHANGED <<success_count, failure_count, reported, queueHead, poolState, queueEnd, marker, code>>

\* open(pid_file, 'w'): the file exists and is empty
RcOpen(p) ==
    /\ Running(p) /\ rc[p] = "open"
    /\ marker' = [marker EXCEPT ![rchunk[p]] = "empty"]
    /\ rc' = [rc EXCEPT ![p] = "write"]
    /\ UNCHANGED <<argVars, shVars, mainVars, poolVars, handlerVars, obsVars>>
    /\ UNCHANGED <<rchunk, child, code>>

\* f.write(str(process.pid)) and the close that flushes it
RcWrite(p) ==
    /\ Running(p) /\ rc[p] = "write"
    /\ marker' = [marker EXCEPT ![rchunk[p]] = IF @ = "none" THEN "none" ELSE "pid"]
    /\ rc' = [rc EXCEPT ![p] = "wait"]
    /\ UNCHANGED <<argVars, shVars, mainVars, poolVars, handlerVars, obsVars>>
    /\ UNCHANGED <<rchunk, child, code>>

\* process.wait() returns once the child has exited, and reaps it
RcWait(p) ==
    /\ Running(p) /\ rc[p] = "wait"
    /\ child[rchunk[p]] = "exited"
    /\ child' = [child EXCEPT ![rchunk[p]] = "reaped"]
    /\ rc' = [rc EXCEPT ![p] = "exists"]
    /\ UNCHANGED <<argVars, shVars, mainVars, poolVars, handlerVars, obsVars>>
    /\ UNCHANGED <<rchunk, marker, code>>

\* if os.path.exists(pid_file): ... else return process.returncode == 0, ...
RcExists(p) ==
    /\ Running(p) /\ rc[p] = "exists"
    /\ IF marker[rchunk[p]] # "none"
       THEN /\ rc' = [rc EXCEPT ![p] = "remove"]
            /\ UNCHANGED <<rchunk, result>>
       ELSE Return(p, code[rchunk[p]] = 0)
    /\ UNCHANGED <<argVars, shVars, mainVars, handlerVars, obsVars>>
    /\ UNCHANGED <<success_count, failure_count, reported, queueHead, poolState, queueEnd>>
    /\ UNCHANGED <<marker, child, code>>

\* os.remove(pid_file); return process.returncode == 0, ...  When the file is
\* gone by now, FileNotFoundError reaches the except branch: return False, ...
RcRemove(p) ==
    /\ Running(p) /\ rc[p] = "remove"
    /\ IF marker[rchunk[p]] # "none"
       THEN /\ marker' = [marker EXCEPT ![rchunk[p]] = "none"]
            /\ Return(p, code[rchunk[p]] = 0)
       ELSE /\ Return(p, FALSE)
            /\ UNCHANGED marker
    /\ UNCHANGED <<argVars, shVars, mainVars, handlerVars, obsVars>>
    /\ UNCHANGED <<success_count, failure_count, reported, queueHead, poolState, queueEnd>>
    /\ UNCHANGED <<child, code>>

\* the chunk's command ends by itself, with exit code 0 or 1
ChildExit(c) ==
    /\ child[c] = "running"
    /\ child' = [child EXCEPT ![c] = "exited"]
    /\ \E x \in {0, 1} : code' = [code EXCEPT ![c] = x]
    /\ UNCHANGED <<argVars, shVars, mainVars, poolVars, handlerVars, obsVars>>
    /\ UNCHANGED <<rc, rchunk, marker>>

(***************************************************************************)
(* main, sequential direct execution: for i, cmd in enumerate(commands, 1) *)
(***************************************************************************)
\* success, _, output = run_command(cmd, i, args.log_dir): the call
SeqCall ==
    /\ pcMain = "seq" /\ rc[0] = "idle"
    /\ idx <= ncmd /\ result[idx] = "none"
    /\ rc' = [rc EXCEPT ![0] = "spawn"]
    /\ rchunk' = [rchunk EXCEPT ![0] = idx]
    /\ started' = Append(started, idx)
    /\ UNCHANGED <<argVars, shVars, mainVars, poolVars, handlerVars>>
    /\ UNCHANGED <<marker, child, code>>
    /\ UNCHANGED <<sigterms, aliveAtSignal, trackedAtSignal, observed>>

\* a loop that calls run_command once more for a command that failed
SeqNextRetry ==
    /\ pcMain = "seq" /\ rc[0] = "idle"
    /\ idx <= ncmd /\ result[idx] # "none"
    /\ success' = IF result[idx] = "ok" THEN "True" ELSE "False"
    /\ reported' = IF result[idx] = "ok" THEN reported ELSE reported \cup {idx}
    /\ LET again == /\ result[idx] # "ok"
                    /\ Cardinality({k \in DOMAIN started : started[k] = idx}) < 2
       IN  /\ idx' = IF again THEN idx ELSE idx + 1
           /\ result' = IF again THEN [result EXCEPT ![idx] = "none"] ELSE result
    /\ UNCHANGED <<argVars, shVars, cmdVars, handlerVars, obsVars>>
    /\ UNCHANGED <<pcMain, num_chunks, commands, ncmd, exitStatus, files>>
    /\ UNCHANGED <<success_count, failure_count, queueHead, poolState, queueEnd>>

\* ... its return: if not success: print(f"Command {i} failed: {cmd}")
SeqNext ==
    /\ pcMain = "seq" /\ rc[0] = "idle"
    /\ idx <= ncmd /\ result[idx] # "none"
    /\ success' = IF result[idx] = "ok" THEN "True" ELSE "False"
    /\ reported' = IF result[idx] = "ok" THEN reported ELSE reported \cup {idx}
    /\ idx' = idx + 1
    /\ UNCHANGED <<argVars, shVars, cmdVars, handlerVars, obsVars>>
    /\ UNCHANGED <<pcMain, num_chunks, commands, ncmd, exitStatus, files>>
    /\ UNCHANGED <<success_count, failure_count, queueHead, poolState, queueEnd, result>>

\* the loop is over, main returns and the interpreter exits with status 0
SeqDone ==
    /\ pcMain = "seq" /\ idx > ncmd
    /\ pcMain' = "exited"
    /\ exitStatus' = 0
    /\ UNCHANGED <<argVars, shVars, poolVars, cmdVars, handlerVars, obsVars>>
    /\ UNCHANGED <<num_chunks, commands, ncmd, files, success, idx>>

\* SIGINT or SIGTERM reaches main in a sequential run: no handler is installed
\* there (signal.signal is called in run_commands_parallel only), so SIGTERM
\* ends the process at once and SIGINT unwinds it as KeyboardInterrupt, which
\* run_command's "except Exception" does not catch.  A marker file that is
\* open is left empty, or flushed when the unwinding closes it.
SeqInterrupt ==
    /\ pcMain = "seq"
    /\ 0 \notin signalled /\ Cardinality(signalled) < MaxSignals
    /\ \E sig \in {signal_SIGINT, signal_SIGTERM} :
          /\ exitStatus' = 128 + sig
          /\ IF rc[0] = "write"
             THEN \E m \in {"empty"} \cup (IF sig = signal_SIGINT THEN {"pid"} ELSE {}) :
                      marker' = [marker EXCEPT ![rchunk[0]] = m]
             ELSE UNCHANGED marker
    /\ pcMain' = "exited"
    /\ signalled' = signalled \cup {0}
    /\ rc' = [rc EXCEPT ![0] = "idle"]
    /\ rchunk' = [rchunk EXCEPT ![0] = 0]
    /\ UNCHANGED <<argVars, shVars, poolVars, obsVars>>
    /\ UNCHANGED <<num_chunks, commands, ncmd, files, success, idx>>
    /\ UNCHANGED <<child, code, hpc, hTodo, hCur>>

(***************************************************************************)
(* run_commands_parallel: ProcessPoolExecutor(max_workers), one future per *)
(* command, results taken in submission order.                             *)
(***************************************************************************)
PoolOpen == pcMain \in {"collect", "shutdown"}

\* the last call item a worker can get: the manager thread feeds the call
\* queue while the pool is healthy; once the pool is broken the workers
\* find only what the call queue already held
QueueLast == IF poolState = "broken" THEN queueEnd ELSE ncmd

\* the call queue holds max_workers + EXTRA_QUEUED_CALLS items
CallQueueSize == max_workers + 1

\* a worker takes the next call item: run_command(cmd, i, log_dir)
WorkerTake(p) ==
    /\ p \in Workers /\ PoolOpen
    /\ rc[p] = "idle" /\ hpc[p] = "none"
    /\ queueHead <= QueueLast
    /\ rc' = [rc EXCEPT ![p] = "spawn"]
    /\ rchunk' = [rchunk EXCEPT ![p] = queueHead]
    /\ queueHead' = queueHead + 1
    /\ started' = Append(started, queueHead)
    /\ UNCHANGED <<argVars, shVars, mainVars, handlerVars>>
    /\ UNCHANGED <<success_count, failure_count, poolState, queueEnd, reported, result>>
    /\ UNCHANGED <<marker, child, code>>
    /\ UNCHANGED <<sigterms, aliveAtSignal, trackedAtSignal, observed>>

\* result = future.result() for the next future.  A worker's SystemExit comes
\* back as the future's exception and "except Exception" does not catch it:
\* it leaves the with block, whose exit is executor.shutdown(wait=True).
\* BrokenProcessPool is an Exception: it is counted and nothing is appended
\* to results.
Collect ==
    /\ pcMain = "collect" /\ hpc[0] = "none"
    /\ idx <= ncmd /\ result[idx] # "none"
    /\ success_count' = IF result[idx] = "ok" THEN success_count + 1 ELSE success_count
    /\ failure_count' = IF result[idx] \in {"fail", "broken"}
                        THEN failure_count + 1 ELSE failure_count
    /\ pcMain' = IF result[idx] = "exc" THEN "shutdown" ELSE "collect"
    /\ idx' = IF result[idx] = "exc" THEN idx ELSE idx + 1
    /\ UNCHANGED <<argVars, shVars, cmdVars, handlerVars, obsVars>>
    /\ UNCHANGED <<num_chunks, commands, ncmd, exitStatus, files, success>>
    /\ UNCHANGED <<reported, queueHead, poolState, queueEnd, result>>

\* the with block's exit joins the workers of a broken pool: each has ended,
\* killed, or by the handler while idle, or at the end of the call queue
PoolJoined ==
    /\ \A p \in Workers : hpc[p] = "none" /\ rc[p] \in {"idle", "dead"}
    /\ queueHead > queueEnd \/ \A p \in Workers : rc[p] = "dead"

\* a return value that is true as soon as one command succeeded
ParallelReturnAny == success_count > 0

\* return success_count == len(commands)
ParallelReturn == success_count = ncmd

\* every future gave its result: the failures are printed, run_commands_parallel
\* returns success_count == len(commands), main prints and returns: status 0
FinishParallel ==
    /\ pcMain = "collect" /\ hpc[0] = "none"
    /\ idx > ncmd
    /\ poolState = "broken" => PoolJoined
    /\ reported' = IF failure_count > 0 THEN {i \in Plan : result[i] = "fail"} ELSE {}
    /\ success' = IF ParallelReturn THEN "True" ELSE "False"
    /\ exitStatus' = 0
    /\ pcMain' = "exited"
    /\ UNCHANGED <<argVars, shVars, cmdVars, handlerVars, obsVars>>
    /\ UNCHANGED <<num_chunks, commands, ncmd, files, idx>>
    /\ UNCHANGED <<success_count, failure_count, queueHead, poolState, queueEnd, result>>

\* SystemExit(1) leaves the with block: shutdown(wait=True) lets the workers
\* run every call item still queued, then the process exits with status 1
Shutdown ==
    /\ pcMain = "shutdown" /\ hpc[0] = "none"
    /\ queueHead > ncmd
    /\ \A p \in Workers : rc[p] = "idle" /\ hpc[p] = "none"
    /\ exitStatus' = 1
    /\ pcMain' = "exited"
    /\ UNCHANGED <<argVars, shVars, poolVars, cmdVars, handlerVars, obsVars>>
    /\ UNCHANGED <<num_chunks, commands, ncmd, files, success, idx>>

(***************************************************************************)
(* A worker process is killed from outside (SIGKILL, the OOM killer).  The *)
(* executor's manager thread then marks the pool broken: every future not  *)
(* done gets BrokenProcessPool, and terminate() sends SIGTERM to the other *)
(* workers, which run the signal_handler they inherited.  The workers are  *)
(* alike, so the worker that is killed is the last one.  A run sees        *)
(* signals from outside or a killed worker, not both.                      *)
(***************************************************************************)
WorkerKilled ==
    /\ parallel /\ pcMain = "collect"
    /\ poolState = "running" /\ signalled = {}
    /\ rc' = [rc EXCEPT ![max_workers] = "dead"]
    /\ rchunk' = [rchunk EXCEPT ![max_workers] = 0]
    /\ poolState' = "worker_died"
    /\ UNCHANGED <<argVars, shVars, mainVars, handlerVars, obsVars>>
    /\ UNCHANGED <<success_count, failure_count, reported, queueHead, result, queueEnd>>
    /\ UNCHANGED <<marker, child, code>>

\* what the call queue can hold when the pool breaks: it was filled at the
\* start and is fed one item for each result the manager thread has read
QueuedAtBreak ==
    LET lo == Min(ncmd, CallQueueSize)
        hi == Min(ncmd, queueHead - 1 + CallQueueSize)
    IN  {n \in (queueHead - 1)..ncmd : lo <= n /\ n <= hi}

TerminateBroken ==
    /\ poolState = "worker_died"
    /\ poolState' = "broken"
    /\ result' = [c \in Chunks |->
                    IF c \in Plan /\ result[c] = "none" THEN "broken" ELSE result[c]]
    /\ queueEnd' \in QueuedAtBreak
    /\ hpc' = [p \in Procs |->
                 IF p \in Workers /\ rc[p] # "dead" THEN "sweep" ELSE hpc[p]]
    /\ hTodo' = [p \in Procs |->
                   IF p \in Workers /\ rc[p] # "dead"
                   THEN {c \in Chunks : marker[c] # "none"} ELSE hTodo[p]]
    /\ signalled' = {p \in Workers : rc[p] # "dead"}
    /\ UNCHANGED <<argVars, shVars, mainVars, cmdVars, obsVars>>
    /\ UNCHANGED <<success_count, failure_count, reported, queueHead, hCur>>

(***************************************************************************)
(* signal_handler(sig, frame).  It is registered in the supervisor before  *)
(* the pool forks its workers, so each worker inherits it; it runs in the  *)
(* process the signal is delivered to.  A signal to an idle worker ends    *)
(* that worker and breaks the pool: such deliveries are left out.  The     *)
(* workers are alike, so the worker that is signalled is worker 1.         *)
(***************************************************************************)
SignalTargets == {0, 1}

\* the signal arrives and the handler takes Path("pid").glob("chunk_*.pid")
Signal(p) ==
    /\ parallel /\ hpc[p] = "none"
    /\ poolState = "running"
    /\ p \in SignalTargets
    /\ p \notin signalled /\ Cardinality(signalled) < MaxSignals
    /\ \/ p = 0 /\ pcMain = "collect"
       \/ p \in Workers /\ PoolOpen /\ rc[p] # "idle"
    /\ hpc' = [hpc EXCEPT ![p] = "sweep"]
    /\ hTodo' = [hTodo EXCEPT ![p] = {c \in Chunks : marker[c] # "none"}]
    /\ signalled' = signalled \cup {p}
    /\ aliveAtSignal' = IF p = 0 THEN {c \in Chunks : child[c] = "running"}
                        ELSE aliveAtSignal
    /\ trackedAtSignal' = IF p = 0 THEN {c \in Chunks : marker[c] = "pid"}
                          ELSE trackedAtSignal
    /\ UNCHANGED <<argVars, shVars, mainVars, poolVars, cmdVars>>
    /\ UNCHANGED <<hCur, sigterms, observed, started>>

\* one pid_file of the snapshot: pid = int(f.read().strip()) and
\* os.kill(pid, signal.SIGTERM).  A file that is gone (FileNotFoundError) or
\* empty (ValueError) goes to "except Exception" and is left as it is; a
\* process that is gone (ProcessLookupError) is passed over.
HandlerKill(p) ==
    /\ hpc[p] = "sweep"
    /\ \E c \in hTodo[p] :
          IF marker[c] = "pid"
          THEN /\ observed' = observed \cup {"pid"}
               /\ hCur' = [hCur EXCEPT ![p] = c]
               /\ hpc' = [hpc EXCEPT ![p] = "unlink"]
               /\ sigterms' = [sigterms EXCEPT
                                 ![c] = IF child[c] \in {"running", "exited"} THEN @ + 1 ELSE @]
               /\ child' = [child EXCEPT ![c] = IF @ = "running" THEN "exited" ELSE @]
               /\ code' = [code EXCEPT
                             ![c] = IF child[c] = "running" THEN -signal_SIGTERM ELSE @]
               /\ UNCHANGED hTodo
          ELSE /\ observed' = IF marker[c] = "empty" THEN observed \cup {"empty"} ELSE observed
               /\ hTodo' = [hTodo EXCEPT ![p] = @ \ {c}]
               /\ UNCHANGED <<hCur, hpc, sigterms, child, code>>
    /\ UNCHANGED <<argVars, shVars, mainVars, poolVars>>
    /\ UNCHANGED <<rc, rchunk, marker, signalled, aliveAtSignal, trackedAtSignal, started>>

\* pid_file.unlink(); FileNotFoundError goes to "except Exception"
HandlerUnlink(p) ==
    /\ hpc[p] = "unlink"
    /\ marker' = [marker EXCEPT ![hCur[p]] = "none"]
    /\ hTodo' = [hTodo EXCEPT ![p] = @ \ {hCur[p]}]
    /\ hCur' = [hCur EXCEPT ![p] = 0]
    /\ hpc' = [hpc EXCEPT ![p] = "sweep"]
    /\ UNCHANGED <<argVars, shVars, mainVars, poolVars, obsVars>>
    /\ UNCHANGED <<rc, rchunk, child, code, signalled>>

\* sys.exit(1).  In the supervisor SystemExit leaves the with block.  In a
\* worker it unwinds run_command, which has no finally and no handler for it
\* (a marker file that is open is closed: left empty, or flushed); the pool's
\* worker loop catches it, sends it back as the future's exception and goes on.
\* In a worker that waits for a call item SystemExit ends the process.
HandlerExit(p) ==
    /\ hpc[p] = "sweep" /\ hTodo[p] = {}
    /\ hpc' = [hpc EXCEPT ![p] = "none"]
    /\ IF p = 0
       THEN /\ pcMain' = "shutdown"
            /\ UNCHANGED <<rc, rchunk, result, marker>>
       ELSE /\ result' = IF poolState = "broken" THEN result
                         ELSE [result EXCEPT ![rchunk[p]] = "exc"]
            /\ rc' = [rc EXCEPT ![p] = IF @ = "idle" THEN "dead" ELSE "idle"]
            /\ rchunk' = [rchunk EXCEPT ![p] = 0]
            /\ IF rc[p] = "write"
               THEN \E m \in {"empty", "pid"} :
                        marker' = [marker EXCEPT ![rchunk[p]] = m]
               ELSE UNCHANGED marker
            /\ UNCHANGED pcMain
    /\ UNCHANGED <<argVars, shVars, obsVars>>
    /\ UNCHANGED <<num_chunks, commands, ncmd, exitStatus, files, success, idx>>
    /\ UNCHANGED <<success_count, failure_count, reported, queueHead, poolState, queueEnd>>
    /\ UNCHANGED <<child, code, hTodo, hCur, signalled>>

(***************************************************************************)
(* Script emission.  A file is kept as what was written to it.             *)
(***************************************************************************)
\* str.lower() on the scheduler names used here
Lower(s) ==
    CASE s \in {"slurm", "SLURM", "Slurm"} -> "slurm"
      [] s \in {"sge", "SGE", "Sge"} -> "sge"
      [] s \in {"lsf", "LSF", "Lsf"} -> "lsf"
      [] s \in {"none", "NONE"} -> "none"
      [] s \in {"pbs", "PBS"} -> "pbs"
      [] OTHER -> s

JobArrayKinds == {"slurm", "sge", "lsf"}

\* os.path.join(args.output_dir, f"process_regions_job_array_{args.job_array}.sh")
JobArrayPath(kind) == "process_regions_job_array_" \o kind \o ".sh"

ShellScriptPath == "process_regions.sh"

CombineScriptPath == "combine_chunks.sh"

\* the file system after open(path, 'w'), the writes and the close
WriteFile(fs, path, content) ==
    [f \in DOMAIN fs \cup {path} |-> IF f = path THEN content ELSE fs[f]]

\* for i, cmd in enumerate(cmds, start): the key of each command
Enumerate(cmds, start) ==
    [i \in start..(start + Len(cmds) - 1) |-> cmds[i - start + 1]]

\* a command table whose keys start at 0, as enumerate counts by default
CommandTableFromZero(cmds) == Enumerate(cmds, 0)

\* commands[<i>]="<cmd>" for i, cmd in enumerate(commands, 1)
CommandTable(cmds) == Enumerate(cmds, 1)

\* the variable the script of a scheduler reads its task index from
IndexVariable(kind) ==
    CASE kind = "slurm" -> "SLURM_ARRAY_TASK_ID"
      [] kind = "sge" -> "SGE_TASK_ID"
      [] kind = "lsf" -> "LSB_JOBINDEX"

\* what the script of a task does, the same for the three schedulers
TaskSteps == <<"write_marker", "command", "remove_marker">>

\* create_job_array_script: the file is opened for writing and "#!/bin/bash" is
\* written before job_array_type is looked at; the else branch prints and calls
\* sys.exit(1) inside the with block, which closes the file; os.chmod is not
\* reached then
JobArrayFile(kind, n) ==
    IF Lower(kind) \in JobArrayKinds
    THEN [shebang |-> TRUE, kind |-> Lower(kind), tasks |-> n, executable |-> TRUE,
          first |-> 1, table |-> CommandTable(commands),
          index |-> IndexVariable(Lower(kind)), steps |-> TaskSteps]
    ELSE [shebang |-> TRUE, kind |-> "", tasks |-> 0, executable |-> FALSE]

CreateJobArrayScript(path, kind) ==
    /\ files' = WriteFile(files, path, JobArrayFile(kind, ncmd))
    /\ IF Lower(kind) \in JobArrayKinds
       THEN /\ pcMain' = "combine"
            /\ UNCHANGED exitStatus
       ELSE /\ pcMain' = "exited"
            /\ exitStatus' = 1

\* what create_shell_script writes first in both modes: "#!/bin/bash" and
\* mkdir, the cleanup() function, the trap on SIGINT SIGTERM EXIT
ScriptHead == <<"header", "cleanup", "trap">>

\* the parallel mode writes the head of the "if command -v parallel" branch:
\* the function run_with_parallel and one array cmd<i> per command.  The next
\* write formats "parallel -j {} run_with_parallel {1} {2} ::: " with
\* str.format, which raises ValueError (automatic and manual field
\* numbering are mixed): the invocation of parallel, the else branch with
\* run_with_limit and the closing fi are never written.
ParallelParts == ScriptHead \o <<"run_with_parallel", "cmd_arrays">>

\* the sequential mode writes one block per command, then the closing echo
SequentialParts == ScriptHead \o <<"sequential_chunks", "footer">>

\* a sequential block that does not wait for its command
PartStepsNoWait(part) ==
    CASE part = "run_with_parallel" -> <<"start_detached", "write_marker">>
      [] part = "sequential_chunks" -> <<"start_detached", "write_marker", "remove_marker">>
      [] OTHER -> <<>>

\* what a part of the script does with a chunk command when it runs: starts
\* it detached ("$@" ... &), writes pid/chunk_<i>.pid, waits for it, removes
\* the marker after it
PartSteps(part) ==
    CASE part = "run_with_parallel" -> <<"start_detached", "write_marker">>
      [] part = "sequential_chunks" ->
             <<"start_detached", "write_marker", "wait", "remove_marker">>
      [] OTHER -> <<>>

\* create_shell_script: the sequential or the parallel local script.  The
\* ValueError of the parallel mode leaves the with block, which closes the
\* file with what was written; os.chmod is not reached and main ends with
\* the uncaught exception, status 1.
CreateShellScript(path) ==
    IF parallel
    THEN /\ files' = WriteFile(files, path,
                         [shebang |-> TRUE, kind |-> "local-parallel",
                          tasks |-> ncmd, executable |-> FALSE,
                          parts |-> ParallelParts])
         /\ pcMain' = "exited"
         /\ exitStatus' = 1
    ELSE /\ files' = WriteFile(files, path,
                         [shebang |-> TRUE, kind |-> "local-sequential",
                          tasks |-> ncmd, executable |-> TRUE,
                          parts |-> SequentialParts])
         /\ pcMain' = "combine"
         /\ UNCHANGED exitStatus

\* main, "Create output script"
EmitScript ==
    /\ pcMain = "emit"
    /\ IF job_array # "none"
       THEN CreateJobArrayScript(JobArrayPath(job_array), job_array)
       ELSE CreateShellScript(ShellScriptPath)
    /\ UNCHANGED <<argVars, shVars, poolVars, cmdVars, handlerVars, obsVars>>
    /\ UNCHANGED <<num_chunks, commands, ncmd, success, idx>>

\* f"{args.output_dir}/all.{species_id}.gz"
CombineOutputPath(sp) == output_dir \o "/all." \o sp \o ".gz"

CombineLogPath == "log/combine_chunks.log"

\* the script's one command is
\*   cat <output_dir>/all_*.gz > <output_dir>/all.<species>.gz > log/combine_chunks.log 2>&1
\* : its standard output is redirected twice
CombineRedirects(sp) == <<CombineOutputPath(sp), CombineLogPath>>

\* generate_combine_script(args, num_chunks), then main prints what to do next
\* and returns: status 0
GenerateCombineScript ==
    /\ pcMain = "combine"
    /\ files' = WriteFile(files, CombineScriptPath,
                    [shebang |-> TRUE, kind |-> "combine",
                     tasks |-> num_chunks.lo, executable |-> TRUE,
                     redirects |-> CombineRedirects(SpeciesId(region_filename))])
    /\ pcMain' = "exited"
    /\ exitStatus' = 0
    /\ UNCHANGED <<argVars, shVars, poolVars, cmdVars, handlerVars, obsVars>>
    /\ UNCHANGED <<num_chunks, commands, ncmd, success, idx>>

(***************************************************************************)
(* After main: the chunk commands write their outputs, and bash runs the   *)
(* emitted combine script.                                                 *)
(***************************************************************************)
\* the command of chunk i has written its -o file
ChunkOutputProduced(i) ==
    /\ pcMain = "exited" /\ CombineScriptPath \in DOMAIN files
    /\ CombineLogPath \notin DOMAIN files
    /\ i \in Plan /\ commands[i].o \notin DOMAIN files
    /\ files' = WriteFile(files, commands[i].o, [kind |-> "data", data |-> {i}])
    /\ UNCHANGED <<argVars, shVars, poolVars, cmdVars, handlerVars, obsVars>>
    /\ UNCHANGED <<pcMain, num_chunks, commands, ncmd, exitStatus, success, idx>>

\* what <output_dir>/all_*.gz expands to, over the names a plan can give
GlobStems == {""} \cup {Str(i) : i \in 0..MaxPlan}

GlobChunks(fs) ==
    {f \in DOMAIN fs : \E stem \in GlobStems : f = output_dir \o "/all_" \o stem \o ".gz"}

\* bash runs the cat of the combine script: every redirection target is
\* opened and truncated from left to right, and standard output is what the
\* last one opened; with no file matching the pattern cat writes nothing
RunCombineScript ==
    /\ pcMain = "exited" /\ CombineScriptPath \in DOMAIN files
    /\ CombineLogPath \notin DOMAIN files
    /\ LET redirects == files[CombineScriptPath].redirects
           targets == {redirects[k] : k \in DOMAIN redirects}
           stdout == redirects[Len(redirects)]
           read == UNION {files[f].data : f \in GlobChunks(files)}
       IN  files' = [f \in DOMAIN files \cup targets |->
                       IF f = stdout THEN [kind |-> "data", data |-> read]
                       ELSE IF f \in targets THEN [kind |-> "data", data |-> {}]
                       ELSE files[f]]
    /\ UNCHANGED <<argVars, shVars, poolVars, cmdVars, handlerVars, obsVars>>
    /\ UNCHANGED <<pcMain, num_chunks, commands, ncmd, exitStatus, success, idx>>

(***************************************************************************)
(* After main: bash runs the emitted process_regions.sh.  bash reads and   *)
(* runs the file one command at a time; a trap set for a signal runs       *)
(* between two commands, and at once when the signal arrives during the    *)
(* wait builtin.                                                           *)
(***************************************************************************)
\* pid/chunk_*.pid as a glob expands it
GlobMarkers == {c \in Chunks : marker[c] # "none"}

\* an earlier run in the same directory left pid/chunk_<c>.pid behind, holding
\* the PID of a process that is gone, or nothing
StaleMarker(c) ==
    /\ pcMain = "exited" /\ ShellScriptPath \in DOMAIN files
    /\ sh.pc = "off"
    /\ marker[c] = "none"
    /\ \E m \in {"pid", "empty"} : marker' = [marker EXCEPT ![c] = m]
    /\ UNCHANGED <<argVars, shVars, mainVars, poolVars, handlerVars, obsVars>>
    /\ UNCHANGED <<rc, rchunk, child, code>>

\* bash process_regions.sh
ShStart ==
    /\ pcMain = "exited" /\ ShellScriptPath \in DOMAIN files
    /\ sh.pc = "off"
    /\ sh' = [sh EXCEPT !.pc = "part", !.k = 1]
    /\ UNCHANGED <<argVars, mainVars, poolVars, cmdVars, handlerVars, obsVars>>
    /\ UNCHANGED <<trap, task>>

\* cleanup() is entered: for pid_file in pid/chunk_*.pid expands the pattern
EnterCleanup(cause) ==
    trap' = [pc |-> "loop", todo |-> GlobMarkers, snap |-> GlobMarkers, cur |-> 0,
             runs |-> trap.runs + 1, cause |-> cause, tried |-> trap.tried]

\* the shell is about to exit with a status: the EXIT trap runs first
ShExit(status) ==
    IF sh.trapset
    THEN /\ sh' = [sh EXCEPT !.pc = "trap", !.status = status]
         /\ EnterCleanup("exit")
    ELSE /\ sh' = [sh EXCEPT !.pc = "done", !.status = status]
         /\ UNCHANGED trap

\* the "if command -v parallel" that the part opens has no closing fi in the
\* file: bash reports a syntax error at the end of the file, status 2
Unclosed(parts, k) ==
    /\ parts[k] = "run_with_parallel"
    /\ \A j \in k..Len(parts) : parts[j] # "fi"

\* the next top-level part of the file
ShPart ==
    /\ sh.pc = "part" /\ sh.k <= Len(files[ShellScriptPath].parts)
    /\ LET f == files[ShellScriptPath]
           part == f.parts[sh.k]
       IN  CASE part = "trap" ->
                    /\ sh' = [sh EXCEPT !.trapset = TRUE, !.k = @ + 1]
                    /\ UNCHANGED trap
             [] part = "sequential_chunks" /\ f.tasks >= 1 ->
                    /\ sh' = [sh EXCEPT !.pc = "chunk", !.i = 1, !.step = 1]
                    /\ UNCHANGED trap
             [] Unclosed(f.parts, sh.k) -> ShExit(2)
             [] OTHER ->
                    /\ sh' = [sh EXCEPT !.k = @ + 1]
                    /\ UNCHANGED trap
    /\ UNCHANGED <<argVars, mainVars, poolVars, cmdVars, handlerVars, obsVars, task>>

\* the end of the file: the shell exits with status 0
ShEnd ==
    /\ sh.pc = "part" /\ sh.k > Len(files[ShellScriptPath].parts)
    /\ ShExit(0)
    /\ UNCHANGED <<argVars, mainVars, poolVars, cmdVars, handlerVars, obsVars, task>>

\* one command of the block of chunk sh.i in the sequential script
ShChunk ==
    /\ sh.pc = "chunk"
    /\ LET steps == PartSteps("sequential_chunks")
           op == steps[sh.step]
           c == sh.i
       IN  /\ CASE op = "start_detached" ->
                       /\ child' = [child EXCEPT ![c] = "running"]
                       /\ started' = Append(started, c)
                       /\ UNCHANGED marker
                [] op = "write_marker" ->
                       /\ marker' = [marker EXCEPT ![c] = "pid"]
                       /\ UNCHANGED <<child, started>>
                [] op = "wait" ->
                       /\ child[c] = "exited"
                       /\ child' = [child EXCEPT ![c] = "reaped"]
                       /\ UNCHANGED <<marker, started>>
                [] op = "remove_marker" ->
                       /\ marker' = [marker EXCEPT ![c] = "none"]
                       /\ UNCHANGED <<child, started>>
           /\ sh' = IF sh.step < Len(steps) THEN [sh EXCEPT !.step = @ + 1]
                    ELSE IF c < files[ShellScriptPath].tasks
                         THEN [sh EXCEPT !.i = @ + 1, !.step = 1]
                         ELSE [sh EXCEPT !.pc = "part", !.k = @ + 1, !.i = 0, !.step = 0]
    /\ UNCHANGED <<argVars, mainVars, poolVars, handlerVars, trap, task>>
    /\ UNCHANGED <<rc, rchunk, code>>
    /\ UNCHANGED <<sigterms, aliveAtSignal, trackedAtSignal, observed>>

\* SIGINT or SIGTERM reaches the shell, once: cleanup runs when the trap is
\* set, and the signal ends the shell when it is not set yet
ShSignal ==
    /\ sh.pc \in {"part", "chunk"}
    /\ \E sig \in {signal_SIGINT, signal_SIGTERM} :
          IF sh.trapset
          THEN /\ \E st \in {0, 128 + sig} : sh' = [sh EXCEPT !.pc = "trap", !.status = st]
               /\ EnterCleanup("signal")
          ELSE /\ sh' = [sh EXCEPT !.pc = "done", !.status = 128 + sig]
               /\ UNCHANGED trap
    /\ UNCHANGED <<argVars, mainVars, poolVars, cmdVars, handlerVars, obsVars, task>>

\* a loop that removes the marker only when the kill succeeded
CleanupKillAndRm ==
    /\ trap.pc = "loop" /\ trap.todo # {}
    /\ LET c == CHOOSE x \in trap.todo : \A y \in trap.todo : x <= y
           hit == marker[c] = "pid" /\ child[c] \in {"running", "exited"}
       IN  IF ~hit
           THEN /\ trap' = [trap EXCEPT !.todo = @ \ {c},
                                        !.tried = IF marker[c] = "none" THEN @ ELSE @ \cup {c}]
                /\ UNCHANGED <<child, code, sigterms>>
           ELSE /\ trap' = [trap EXCEPT !.pc = "rm", !.cur = c, !.tried = @ \cup {c}]
                /\ sigterms' = [sigterms EXCEPT ![c] = @ + 1]
                /\ child' = [child EXCEPT ![c] = "exited"]
                /\ code' = [code EXCEPT ![c] = IF child[c] = "running"
                                               THEN -signal_SIGTERM ELSE @]
    /\ UNCHANGED <<argVars, mainVars, poolVars, handlerVars, sh, task>>
    /\ UNCHANGED <<rc, rchunk, marker>>
    /\ UNCHANGED <<aliveAtSignal, trackedAtSignal, observed, started>>

\* one pid_file of the loop: [ -f "$pid_file" ], pid=$(cat "$pid_file") and
\* kill -TERM $pid 2>/dev/null || echo "Could not kill $pid"
CleanupKill ==
    /\ trap.pc = "loop" /\ trap.todo # {}
    /\ LET c == CHOOSE x \in trap.todo : \A y \in trap.todo : x <= y
       IN  IF marker[c] = "none"
           THEN /\ trap' = [trap EXCEPT !.todo = @ \ {c}]
                /\ UNCHANGED <<child, code, sigterms>>
           ELSE /\ trap' = [trap EXCEPT !.pc = "rm", !.cur = c, !.tried = @ \cup {c}]
                /\ LET hit == marker[c] = "pid" /\ child[c] \in {"running", "exited"}
                   IN  /\ sigterms' = [sigterms EXCEPT ![c] = IF hit THEN @ + 1 ELSE @]
                       /\ child' = [child EXCEPT ![c] = IF @ = "running" THEN "exited" ELSE @]
                       /\ code' = [code EXCEPT
                                     ![c] = IF marker[c] = "pid" /\ child[c] = "running"
                                            THEN -signal_SIGTERM ELSE @]
    /\ UNCHANGED <<argVars, mainVars, poolVars, handlerVars, sh, task>>
    /\ UNCHANGED <<rc, rchunk, marker>>
    /\ UNCHANGED <<aliveAtSignal, trackedAtSignal, observed, started>>

\* rm -f "$pid_file"
CleanupRm ==
    /\ trap.pc = "rm"
    /\ marker' = [marker EXCEPT ![trap.cur] = "none"]
    /\ trap' = [trap EXCEPT !.pc = "loop", !.todo = @ \ {trap.cur}, !.cur = 0]
    /\ UNCHANGED <<argVars, mainVars, poolVars, handlerVars, obsVars, sh, task>>
    /\ UNCHANGED <<rc, rchunk, child, code>>

\* echo "Cleanup complete"; exit.  In the trap of a signal the exit runs the
\* EXIT trap, cleanup once more; in the EXIT trap it ends the shell
CleanupExit ==
    /\ trap.pc = "loop" /\ trap.todo = {}
    /\ IF trap.cause = "signal"
       THEN /\ EnterCleanup("exit")
            /\ UNCHANGED sh
       ELSE /\ trap' = [trap EXCEPT !.pc = "none"]
            /\ sh' = [sh EXCEPT !.pc = "done"]
    /\ UNCHANGED <<argVars, mainVars, poolVars, cmdVars, handlerVars, obsVars, task>>

(***************************************************************************)
(* After main: the job-array script is submitted and the scheduler runs    *)
(* it once for each index of the range it declares, with its own task      *)
(* index variable set.  The tasks run side by side.                        *)
(***************************************************************************)
\* the variable each scheduler sets to the index of an array task
SchedulerSets(kind) ==
    CASE kind = "slurm" -> "SLURM_ARRAY_TASK_ID"
      [] kind = "sge" -> "SGE_TASK_ID"
      [] kind = "lsf" -> "LSB_JOBINDEX"

\* pid/slurm_${SLURM_ARRAY_TASK_ID}.pid, pid/sge_${SGE_TASK_ID}.pid,
\* pid/lsf_${LSB_JOBINDEX}.pid; an unset variable expands to nothing
TaskMarkerPath(f, t) ==
    "pid/" \o f.kind \o "_"
        \o (IF f.index = SchedulerSets(f.kind) THEN Str(t) ELSE "") \o ".pid"

\* ${commands[$INDEX]}: the entry of the table, nothing for a key it lacks
TaskCommand(f, t) ==
    IF f.index = SchedulerSets(f.kind) /\ t \in DOMAIN f.table
    THEN f.table[t] ELSE NoCommand

\* the job-array script main wrote, once a scheduler can take it
Submitted ==
    /\ pcMain = "exited"
    /\ JobArrayPath(job_array) \in DOMAIN files
    /\ files[JobArrayPath(job_array)].kind \in JobArrayKinds

\* the scheduler starts the task of index t of the declared range
TaskStart(t) ==
    /\ Submitted
    /\ LET f == files[JobArrayPath(job_array)] IN t \in f.first..f.tasks
    /\ task[t].pc = 0
    /\ task' = [task EXCEPT ![t].pc = 1]
    /\ UNCHANGED <<argVars, mainVars, poolVars, cmdVars, handlerVars, obsVars>>
    /\ UNCHANGED <<sh, trap>>

\* the next step of the script in task t; the command runs in the foreground
\* and the script goes on when it has exited, with any exit code
TaskStep(t) ==
    /\ Submitted
    /\ task[t].pc \in 1..Len(files[JobArrayPath(job_array)].steps)
    /\ LET f == files[JobArrayPath(job_array)]
           op == f.steps[task[t].pc]
           path == TaskMarkerPath(f, t)
       IN  CASE op = "write_marker" ->
                    /\ files' = WriteFile(files, path, [kind |-> "marker", task |-> t])
                    /\ task' = [task EXCEPT ![t].pc = @ + 1]
             [] op = "command" ->
                    /\ \E x \in {0, 1} :
                          task' = [task EXCEPT ![t].pc = @ + 1,
                                               ![t].ran = TaskCommand(f, t),
                                               ![t].code = x]
                    /\ UNCHANGED files
             [] op = "remove_marker" ->
                    /\ files' = [g \in DOMAIN files \ {path} |-> files[g]]
                    /\ task' = [task EXCEPT ![t].pc = @ + 1]
    /\ UNCHANGED <<argVars, poolVars, cmdVars, handlerVars, obsVars>>
    /\ UNCHANGED <<pcMain, num_chunks, commands, ncmd, exitStatus, success, idx>>
    /\ UNCHANGED <<sh, trap>>

(***************************************************************************)
(* The program: main() from the parsed command line to the process's exit. *)
(***************************************************************************)
NoFiles == [f \in {} |-> {}]

\* no script was run yet
ShellOff == [pc |-> "off", k |-> 0, i |-> 0, step |-> 0, trapset |-> FALSE, status |-> -1]

TrapOff == [pc |-> "none", todo |-> {}, snap |-> {}, cur |-> 0, runs |-> 0,
            cause |-> "none", tried |-> {}]

\* task indices a scheduler can be asked for
Tasks == 0..MaxPlan

\* pc is the step of the script the task is at: 0 before it starts
TaskPending == [pc |-> 0, ran |-> NoCommand, code |-> 0]

\* everything but the command line, as main finds it
Fresh ==
    /\ num_chunks = BigZero
    /\ exitStatus = -1
    /\ files = NoFiles
    /\ success = "unbound"
    /\ idx = 1
    /\ success_count = 0 /\ failure_count = 0 /\ reported = {}
    /\ rc = [p \in Procs |-> "idle"]
    /\ rchunk = [p \in Procs |-> 0]
    /\ queueHead = 1
    /\ poolState = "running"
    /\ queueEnd = 0
    /\ result = [c \in Chunks |-> "none"]
    /\ marker = [c \in Chunks |-> "none"]
    /\ child = [c \in Chunks |-> "none"]
    /\ code = [c \in Chunks |-> 0]
    /\ hpc = [p \in Procs |-> "none"]
    /\ hTodo = [p \in Procs |-> {}]
    /\ hCur = [p \in Procs |-> 0]
    /\ signalled = {}
    /\ sigterms = [c \in Chunks |-> 0]
    /\ aliveAtSignal = {}
    /\ trackedAtSignal = {}
    /\ observed = {}
    /\ started = <<>>
    /\ sh = ShellOff
    /\ trap = TrapOff
    /\ task = [t \in Tasks |-> TaskPending]

\* argparse: --job-array is one of its choices; what a mode does not read is
\* left at its default
Init ==
    /\ num_regions \in {Big(0, n) : n \in 0..MaxRegions}
    /\ chunk_size \in (-1)..MaxChunkSize
    /\ execute \in BOOLEAN
    /\ parallel \in BOOLEAN
    /\ job_array \in {"none", "slurm", "sge", "lsf"}
    /\ max_workers \in 1..MaxWorkers
    /\ execute => job_array = "none"
    /\ (execute /\ ~parallel) => max_workers = 1
    /\ pcMain = "partition"
    /\ commands = <<>> /\ ncmd = 0
    /\ region_filename = HumanRegions
    /\ Fresh

Next ==
    \/ ComputeChunks
    \/ GenerateCommands
    \/ SeqCall
    \/ SeqNext
    \/ SeqDone
    \/ SeqInterrupt
    \/ \E p \in Procs : RcSpawn(p)
    \/ \E p \in Procs : RcOpen(p)
    \/ \E p \in Procs : RcWrite(p)
    \/ \E p \in Procs : RcWait(p)
    \/ \E p \in Procs : RcExists(p)
    \/ \E p \in Procs : RcRemove(p)
    \/ \E c \in Chunks : ChildExit(c)
    \/ \E p \in Procs : WorkerTake(p)
    \/ Collect
    \/ FinishParallel
    \/ Shutdown
    \/ WorkerKilled
    \/ TerminateBroken
    \/ \E p \in Procs : Signal(p)
    \/ \E p \in Procs : HandlerKill(p)
    \/ \E p \in Procs : HandlerUnlink(p)
    \/ \E p \in Procs : HandlerExit(p)
    \/ EmitScript
    \/ GenerateCombineScript

Spec == Init /\ [][Next]_vars

(***************************************************************************)
(* The partition step alone, over totals up to and around 2^MantissaBits.  *)
(***************************************************************************)
SmallTotals == {Big(0, n) : n \in 0..MaxSmallTotal}

BigTotals == {Big(Base \div 2, d) : d \in 0..MaxBigDelta}
                 \cup {Big(Base \div 2 - 1, Base - d) : d \in 1..MaxBigDelta}

InitPartition ==
    /\ num_regions \in SmallTotals \cup BigTotals
    /\ chunk_size \in (-MaxDivisor)..MaxDivisor
    /\ execute = FALSE /\ parallel = FALSE /\ job_array = "none" /\ max_workers = 1
    /\ pcMain = "partition"
    /\ commands = <<>> /\ ncmd = 0
    /\ region_filename = HumanRegions
    /\ Fresh

NextPartition == ComputeChunks

SpecPartition == InitPartition /\ [][NextPartition]_vars

(***************************************************************************)
(* The partition and planning steps alone, over the small totals and the   *)
(* positive chunk sizes, in every mode of main.                            *)
(***************************************************************************)
InitPlan ==
    /\ num_regions \in SmallTotals
    /\ chunk_size \in 1..MaxDivisor
    /\ execute \in BOOLEAN
    /\ parallel \in BOOLEAN
    /\ job_array \in {"none", "slurm", "sge", "lsf"}
    /\ max_workers = 1
    /\ execute => job_array = "none"
    /\ pcMain = "partition"
    /\ commands = <<>> /\ ncmd = 0
    /\ region_filename = HumanRegions
    /\ Fresh

NextPlan == ComputeChunks \/ GenerateCommands

SpecPlan == InitPlan /\ [][NextPlan]_vars

(***************************************************************************)
(* Script emission, the chunk outputs and the run of the combine script,   *)
(* for region files of either species and of neither.                      *)
(***************************************************************************)
RegionFilenames ==
    {HumanRegions, MouseRegions,
     <<"r", ".", "g", "z">>,
     <<"r", ".", "H", ".", "g", "z">>,
     <<"h", ".", "g", "z">>,
     <<"d", ".", "h", ".", "g", "z", "/", "r", ".", "m", ".", "g", "z">>}

InitCombine ==
    /\ num_regions \in {Big(0, n) : n \in 0..MaxPlan}
    /\ chunk_size = 1
    /\ execute = FALSE /\ parallel = FALSE /\ job_array = "none" /\ max_workers = 1
    /\ pcMain = "partition"
    /\ commands = <<>> /\ ncmd = 0
    /\ region_filename \in RegionFilenames
    /\ Fresh

NextCombine ==
    \/ ComputeChunks
    \/ GenerateCommands
    \/ EmitScript
    \/ GenerateCombineScript
    \/ \E i \in 1..MaxPlan : ChunkOutputProduced(i)
    \/ RunCombineScript

SpecCombine == InitCombine /\ [][NextCombine]_vars

(***************************************************************************)
(* The emission of the local script, sequential or parallel, and its run   *)
(* under bash, with markers an earlier run left and one signal at most.    *)
(***************************************************************************)
InitScript ==
    /\ num_regions \in {Big(0, n) : n \in 0..MaxRegions}
    /\ chunk_size = 1
    /\ execute = FALSE /\ parallel \in BOOLEAN /\ job_array = "none" /\ max_workers = 1
    /\ pcMain = "partition"
    /\ commands = <<>> /\ ncmd = 0
    /\ region_filename = HumanRegions
    /\ Fresh

NextScript ==
    \/ ComputeChunks
    \/ GenerateCommands
    \/ EmitScript
    \/ GenerateCombineScript
    \/ \E c \in Chunks : StaleMarker(c)
    \/ ShStart
    \/ ShPart
    \/ ShEnd
    \/ ShChunk
    \/ ShSignal
    \/ \E c \in Chunks : ChildExit(c)
    \/ CleanupKill
    \/ CleanupRm
    \/ CleanupExit

SpecScript == InitScript /\ [][NextScript]_vars

(***************************************************************************)
(* The emission of a job-array script for each scheduler and the run of    *)
(* its tasks.                                                              *)
(***************************************************************************)
InitTask ==
    /\ num_regions \in {Big(0, n) : n \in 0..MaxPlan}
    /\ chunk_size = 1
    /\ execute = FALSE /\ parallel = FALSE /\ max_workers = 1
    /\ job_array \in JobArrayKinds
    /\ pcMain = "partition"
    /\ commands = <<>> /\ ncmd = 0
    /\ region_filename = HumanRegions
    /\ Fresh

NextTask ==
    \/ ComputeChunks
    \/ GenerateCommands
    \/ EmitScript
    \/ GenerateCombineScript
    \/ \E t \in Tasks : TaskStart(t)
    \/ \E t \in Tasks : TaskStep(t)

SpecTask == InitTask /\ [][NextTask]_vars

(***************************************************************************)
(* create_job_array_script alone, called with any job_array_type.          *)
(***************************************************************************)
JobArrayTypes ==
    {"slurm", "SLURM", "Slurm", "sge", "SGE", "Sge", "lsf", "LSF", "Lsf",
     "none", "NONE", "pbs", "PBS", "torque", "condor", ""}

CallCreateJobArrayScript ==
    /\ pcMain = "call"
    /\ CreateJobArrayScript(JobArrayPath(job_array), job_array)
    /\ UNCHANGED <<argVars, shVars, poolVars, cmdVars, handlerVars, obsVars>>
    /\ UNCHANGED <<num_chunks, commands, ncmd, success, idx>>

InitJobArray ==
    /\ num_regions = BigZero /\ chunk_size = 1
    /\ execute = FALSE /\ parallel = FALSE /\ max_workers = 1
    /\ job_array \in JobArrayTypes
    /\ pcMain = "call"
    /\ ncmd \in 0..MaxPlan
    /\ commands = generate_commands(Big(0, ncmd))
    /\ region_filename = HumanRegions
    /\ Fresh

NextJobArray == CallCreateJobArrayScript

SpecJobArray == InitJobArray /\ [][NextJobArray]_vars

(***************************************************************************)
(* Properties.                                                             *)
(***************************************************************************)
Markers == {c \in Chunks : marker[c] # "none"}

\* the supervisor's signal_handler has run to its sys.exit(1)
HandlerDone == 0 \in signalled /\ hpc[0] = "none"

\* the command of chunk c ran and exited with code 0
ExitedZero(c) == child[c] \in {"exited", "reaped"} /\ code[c] = 0

\* a direct run that went from the plan to main's return with no signal and
\* no worker lost, and
\* in which every command of the plan was started
DirectRunEnded ==
    /\ execute /\ pcMain = "exited" /\ chunk_size # 0 /\ signalled = {}
    /\ poolState = "running"
    /\ \A c \in Plan : child[c] # "none"

\* C1: after a direct-execution run ends (completed, interrupted by SIGINT or
\* SIGTERM at any point, or with failed chunks) no marker file
\* pid/chunk_<i>.pid remains.
C1_NoMarkerAfterRun ==
    (execute /\ pcMain = "exited") => Markers = {}

\* C2: during a direct parallel run with max_workers = W over K commands the
\* number of existing marker files is at most min(K, W).
C2_MarkersAtMostWorkers ==
    (execute /\ parallel /\ pcMain \in {"collect", "shutdown", "exited"}) =>
        Cardinality(Markers) <= Min(ncmd, max_workers)

\* C3: when a signal arrives during a direct parallel run, every child active
\* at that moment gets a SIGTERM from the handler (here: is not left running
\* without one once the handler has ended), and the supervisor ends with a
\* nonzero status.
C3_ActiveChildrenTerminated ==
    HandlerDone =>
        /\ \A c \in aliveAtSignal : sigterms[c] >= 1 \/ child[c] # "running"
        /\ pcMain = "exited" => exitStatus # 0

\* C4: on cancellation of a direct parallel run every tracked child (one whose
\* marker holds its PID) is sent SIGTERM exactly once over all the processes
\* in which the handler runs: never twice, and never zero times while it is
\* still running.
C4_SigtermExactlyOnce ==
    /\ \A c \in Chunks : sigterms[c] <= 1
    /\ HandlerDone =>
           \A c \in trackedAtSignal : sigterms[c] >= 1 \/ child[c] # "running"

\* C5: a marker file is never observed half-written: the handler that opens
\* pid/chunk_<i>.pid finds no file or reads the complete PID, never an empty
\* content.
C5_MarkerNeverReadEmpty == "empty" \notin observed

\* C6: create_job_array_script for a scheduler kind other than slurm, sge or
\* lsf (in any case) ends the process with a nonzero status and leaves no
\* file at the output script path.
C6_UnsupportedKindWritesNothing ==
    (pcMain # "call" /\ Lower(job_array) \notin JobArrayKinds) =>
        /\ pcMain = "exited" /\ exitStatus # 0
        /\ JobArrayPath(job_array) \notin DOMAIN files

\* C7: when the plan is executed directly the exit status of the program is 0
\* iff every chunk command exited with code 0.
C7_ExitStatusReflectsChunks ==
    DirectRunEnded => (exitStatus = 0 <=> \A c \in Plan : ExitedZero(c))

\* C8: sequential direct execution runs every descriptor in ordinal order
\* whatever the earlier exit codes, reports as failed exactly the chunks whose
\* exit code was not zero, and its aggregate success (main keeps no flag but
\* success, and has its exit status) is true iff all exit codes were zero.
C8_SequentialRunsAllAndAggregates ==
    (DirectRunEnded /\ ~parallel /\ ncmd >= 1) =>
        /\ started = [i \in 1..ncmd |-> i]
        /\ \A c \in Plan : result[c] # "none"
        /\ reported = {c \in Plan : ~ExitedZero(c)}
        /\ \/ success = "True" <=> \A c \in Plan : ExitedZero(c)
           \/ exitStatus = 0 <=> \A c \in Plan : ExitedZero(c)

\* C9: a chunk size of zero or less is a fatal configuration error: the process
\* ends with a nonzero status and neither the processing script nor the
\* combine script is written.  (Stated for the emission modes other than
\* the local parallel script, whose emission fails for every chunk size.)
C9_NonPositiveChunkSizeIsFatal ==
    (/\ ~execute /\ pcMain = "exited" /\ chunk_size <= 0
     /\ job_array = "none" => ~parallel) =>
        /\ exitStatus # 0
        /\ DOMAIN files = {}

\* C10: for every total N >= 0 and chunk size S > 0 the computed chunk count is
\* ceil(N / S), and it is 0 iff N = 0.
C10_ChunkCountIsCeil ==
    (pcMain = "plan" /\ chunk_size > 0) =>
        /\ num_chunks = ExactCeil(num_regions, chunk_size)
        /\ (num_chunks = BigZero <=> num_regions = BigZero)

\* C11: generate_commands returns exactly chunkCount commands, whose ordinals
\* (-i) are 1..chunkCount in order and whose output paths (-o) are pairwise
\* distinct.
C11_PlanOrdinalsAndPaths ==
    pcMain \in {"collect", "seq", "emit"} =>
        /\ num_chunks = Big(0, Len(commands))
        /\ \A k \in 1..Len(commands) : commands[k].i = k
        /\ \A j, k \in 1..Len(commands) : j # k => commands[j].o # commands[k].o

\* a plan long enough for ordinals of two digits was built
C11_Witness == pcMain \in {"collect", "seq", "emit"} /\ Len(commands) >= 11

\* the parallel run has printed its report and returned
ParallelReported ==
    execute /\ parallel /\ pcMain = "exited" /\ success # "unbound"

\* C12: the result of a direct parallel run holds an outcome for every command
\* of the plan, and the failure report lists as many chunks as the failure
\* count says, chunks whose future raised included.
C12_ReportEnumeratesFailures ==
    ParallelReported =>
        /\ \A c \in Plan : result[c] \in {"ok", "fail"}
        /\ Cardinality(reported) = failure_count

\* chunk c was handed to run_command
WasRun(c) == \E k \in DOMAIN started : started[k] = c

LocalParallelEmitted ==
    /\ ~execute /\ parallel /\ job_array = "none"
    /\ ncmd >= 1 /\ ShellScriptPath \in DOMAIN files

\* the parts of a script that start chunk commands
Launchers(f) == {k \in DOMAIN f.parts : PartSteps(f.parts[k]) # <<>>}

\* C14: the emitted local-parallel script holds the parallel-runner branch
\* (parallel -j maxWorkers ...) and the polling fallback branch
\* (run_with_limit), and through each of them no more than maxWorkers chunk
\* commands run at the same time.
C14_LocalParallelBounded ==
    LocalParallelEmitted =>
        LET f == files[ShellScriptPath]
            has(part) == \E k \in DOMAIN f.parts : f.parts[k] = part
        IN  /\ f.executable
            /\ has("parallel_invocation")
            /\ has("run_with_limit") /\ has("fallback_chunks")

\* C15: in the emitted local-parallel script every part that starts a chunk
\* command writes the command's marker pid/chunk_<i>.pid when it starts it
\* and removes that marker when the command completes.
C15_LocalParallelMarkers ==
    LocalParallelEmitted =>
        LET f == files[ShellScriptPath]
            does(k, step) ==
                \E n \in DOMAIN PartSteps(f.parts[k]) : PartSteps(f.parts[k])[n] = step
        IN  \A k \in Launchers(f) :
                does(k, "write_marker") /\ does(k, "remove_marker")

\* the script of the chunk step: the job-array script or the local script
ChunkScriptPath ==
    IF job_array # "none" THEN JobArrayPath(job_array) ELSE ShellScriptPath

\* C16: the combine step comes after the chunk step in both branches of main:
\* a direct run that ran every chunk to its end has emitted the combine
\* script, a completed script emission has emitted it too, and the combine
\* script is never there before the chunk step (the chunk script, or the
\* chunks' execution) is.
C16_CombineAfterChunks ==
    /\ (DirectRunEnded /\ ncmd >= 1) => CombineScriptPath \in DOMAIN files
    /\ (~execute /\ pcMain = "exited" /\ exitStatus = 0) =>
           CombineScriptPath \in DOMAIN files
    /\ CombineScriptPath \in DOMAIN files =>
           IF execute THEN \A c \in Plan : child[c] \in {"exited", "reaped"}
           ELSE ChunkScriptPath \in DOMAIN files

\* bash has run the combine script
CombineRan == CombineLogPath \in DOMAIN files

\* the species-tagged name the combine output is to have
TaggedOutput ==
    IF Contains(region_filename, <<".", "h", ".", "g", "z">>)
    THEN output_dir \o "/all.h.gz" ELSE output_dir \o "/all.m.gz"

\* C17: the combine script writes the combined chunks to exactly one file,
\* all.h.gz for a human region file and all.m.gz for a mouse one; that name is
\* none of the chunk outputs all_<i>.gz the script reads.
C17_CombineWritesTaggedOutput ==
    CombineRan =>
        /\ TaggedOutput \in DOMAIN files
        /\ files[TaggedOutput].data = {i \in Plan : commands[i].o \in DOMAIN files}
        /\ \A f \in DOMAIN files :
               (f \notin GlobChunks(files) /\ f # TaggedOutput) =>
                   (files[f].kind # "data" \/ files[f].data = {})
        /\ TaggedOutput \notin GlobChunks(files)
        /\ \A i \in Plan : commands[i].o # TaggedOutput

\* C18: in direct execution, whenever the child of a chunk is alive its marker
\* pid/chunk_<i>.pid exists, so that a sweep of the marker directory misses no
\* live child.
C18_LiveChildHasMarker ==
    execute => \A c \in Chunks : child[c] = "running" => marker[c] # "none"

\* C19: a marker-cleanup failure is never turned into a chunk failure: when
\* the child of a chunk exited with code 0 and run_command returned, it
\* reported the chunk as successful, also when another actor had removed the
\* marker first.
C19_CleanupFailureTolerated ==
    \A c \in Chunks :
        (child[c] = "reaped" /\ code[c] = 0 /\ result[c] \in {"ok", "fail"}) =>
            result[c] = "ok"

\* C20: the supervisor's cancellation handler is complete: every marker it
\* takes off its list is deleted by then, also when the kill failed or the
\* marker could not be read; it ends only with its list empty; and the
\* supervisor, once signalled, exits with status 1.
C20_HandlerCompletesSweep ==
    [][/\ \A c \in Chunks :
              (c \in hTodo[0] /\ c \notin hTodo'[0]) => marker'[c] = "none"
       /\ (hpc[0] = "sweep" /\ hpc'[0] = "none") => hTodo[0] = {}
       /\ (0 \in signalled /\ pcMain # "exited" /\ pcMain' = "exited") =>
              exitStatus' = 1]_vars

\* C21: in a direct run run_command is entered at most once for each chunk
\* ordinal, a failed chunk included, and at no time are two processes inside
\* run_command for the same ordinal: one child and one marker per ordinal.
C21_SpawnedAtMostOnce ==
    execute =>
        /\ \A j, k \in DOMAIN started : j # k => started[j] # started[k]
        /\ \A p, q \in Procs : (rchunk[p] # 0 /\ rchunk[p] = rchunk[q]) => p = q
        /\ \A c \in Chunks : child[c] # "none" => \E k \in DOMAIN started : started[k] = c

\* a direct run of two commands or more has ended with a failed chunk
C21_Witness ==
    /\ execute /\ pcMain = "exited" /\ ncmd >= 2
    /\ Len(started) = ncmd
    /\ \E c \in Plan : result[c] = "fail" /\ child[c] = "reaped"

\* C22: in a direct parallel run, from the start of the supervisor's
\* signal_handler to the supervisor's exit, no command of the plan that was
\* still queued is handed to run_command and no child is spawned for a chunk
\* that had none.
C22_NoSpawnAfterSignal ==
    [][(execute /\ parallel /\ 0 \in signalled /\ pcMain # "exited") =>
           /\ started' = started
           /\ \A c \in Chunks : child[c] = "none" => child'[c] = "none"]_vars

\* the local script of a kind was run by bash and the shell has exited
ScriptEnded(kind) ==
    /\ sh.pc = "done"
    /\ files[ShellScriptPath].kind = kind

\* C23: the emitted local-parallel script runs the chunk commands of its plan
\* through its parallel-runner branch or its fallback branch, and reaches its
\* end, where the EXIT trap runs cleanup, only after every one of them has
\* exited: cleanup at a normal exit terminates no chunk command.
C23_ParallelScriptEndsAfterChunks ==
    (ScriptEnded("local-parallel") /\ ncmd >= 1 /\ trap.cause = "exit" /\ trap.runs = 1) =>
        /\ sh.status = 0
        /\ \A c \in Plan : child[c] \in {"exited", "reaped"} /\ sigterms[c] = 0

\* C24: the cleanup handler of an emitted local script runs when the shell
\* gets SIGINT or SIGTERM or exits; at the end of its loop it has tried TERM
\* on the PID of every pid/chunk_*.pid that existed when it started and has
\* deleted each of them, also where the process was gone; its second run,
\* started by its own exit, finds no marker and does nothing; no marker is
\* left when the shell has ended.
C24_CleanupSweepsMarkers ==
    /\ trap.runs <= 2
    /\ (sh.trapset /\ sh.pc \in {"trap", "done"}) => trap.runs >= 1
    /\ (trap.pc = "loop" /\ trap.todo = {}) =>
           \A c \in trap.snap : marker[c] = "none" /\ c \in trap.tried
    /\ trap.runs = 2 => trap.snap = {}
    /\ (sh.trapset /\ sh.pc = "done") => GlobMarkers = {}

\* cleanup ran twice after a signal; it terminated a chunk command and met a
\* marker whose process was gone
C24_Witness ==
    /\ sh.pc = "done" /\ trap.runs = 2
    /\ \E c \in trap.tried : sigterms[c] = 1 /\ code[c] = -signal_SIGTERM
    /\ \E c \in trap.tried : sigterms[c] = 0

\* bash is running, or has run, the emitted sequential script
SequentialScriptRun ==
    /\ sh.pc # "off"
    /\ files[ShellScriptPath].kind = "local-sequential"

\* C25: the emitted sequential script starts the chunk commands in the order
\* 1, 2, ... and one at a time: while it waits for chunk i the marker
\* pid/chunk_<i>.pid holds the PID; chunk i + 1 is started only when chunk i was
\* waited for and its marker deleted; a run that reaches the end of the
\* script has started every chunk of the plan, whatever their exit codes.
C25_SequentialScriptOrder ==
    SequentialScriptRun =>
        /\ \A k \in DOMAIN started : started[k] = k
        /\ Cardinality({c \in Chunks : child[c] = "running"}) <= 1
        /\ \A k \in DOMAIN started :
               k > 1 => child[k - 1] = "reaped" /\ marker[k - 1] = "none"
        /\ (sh.pc = "chunk" /\ PartSteps("sequential_chunks")[sh.step] = "wait") =>
               marker[sh.i] = "pid" /\ child[sh.i] \in {"running", "exited"}
        /\ (sh.pc = "done" /\ trap.runs = 1 /\ trap.cause = "exit") =>
               /\ Len(started) = ncmd
               /\ \A c \in Plan : child[c] = "reaped" /\ sigterms[c] = 0

\* the script ran two chunks to its end and the first one failed
C25_Witness ==
    /\ SequentialScriptRun /\ sh.pc = "done" /\ sh.status = 0
    /\ trap.runs = 1 /\ trap.cause = "exit"
    /\ started = <<1, 2>>
    /\ code[1] = 1 /\ child[2] = "reaped"

\* the step of a task's script is after the marker was written and before
\* it is removed
TaskHoldsMarker(t) ==
    /\ task[t].pc \in 2..Len(TaskSteps)
    /\ TaskSteps[task[t].pc] \in {"command", "remove_marker"}

\* C26: for Slurm, SGE and LSF the job-array script of a plan of K commands
\* declares the task range 1..K; only the indices of that range run; the
\* task of index t runs the command of chunk ordinal t and no other; its
\* marker, named after t, exists from before the command until after it and
\* is gone when the task has ended, whatever the command's exit code.
C26_JobArrayTasks ==
    Submitted =>
        LET f == files[JobArrayPath(job_array)] IN
        /\ f.first = 1 /\ f.tasks = ncmd
        /\ \A t \in Tasks : task[t].pc # 0 => t \in Plan
        /\ \A t \in Plan :
              /\ task[t].ran # NoCommand => task[t].ran = commands[t] /\ task[t].ran.i = t
              /\ TaskHoldsMarker(t) =>
                     /\ TaskMarkerPath(f, t) \in DOMAIN files
                     /\ files[TaskMarkerPath(f, t)].task = t
              /\ TaskMarkerPath(f, t) =
                     "pid/" \o job_array \o "_" \o Str(t) \o ".pid"
              /\ task[t].pc = Len(TaskSteps) + 1 =>
                     /\ task[t].ran = commands[t]
                     /\ TaskMarkerPath(f, t) \notin DOMAIN files

\* the three tasks of a plan of three commands have ended, one command
\* failed and one succeeded
C26_Witness ==
    /\ Submitted /\ ncmd = 3
    /\ \A t \in Plan : task[t].pc = Len(TaskSteps) + 1
    /\ \E t \in Plan : task[t].code = 1
    /\ \E t \in Plan : task[t].code = 0

====
